---------------------------- MODULE Spec2Model ----------------------------
(***************************************************************************)
(* A model of the WikiProvenance validator (src/validator/main.py).        *)
(*                                                                         *)
(* Text is modelled as a sequence of one-character strings, so that the    *)
(* string operations of the code (split, startswith, strip, count, lower,  *)
(* join) are computed character by character, as Python computes them.     *)
(***************************************************************************)
EXTENDS Integers, Sequences, FiniteSets, TLC

VARIABLES collections, verifier, lastOp, arg, ret

vars == <<collections, verifier, lastOp, arg, ret>>

(***************************************************************************)
(* Bounds of the model.                                                    *)
(***************************************************************************)
MaxDocLen == 4

\* All sequences over S of length at most n.
SeqUpTo(S, n) == UNION {[1..k -> S] : k \in 0..n}

(***************************************************************************)
(* Python string operations.                                               *)
(***************************************************************************)
\* str.strip() with no argument removes leading and trailing whitespace.
Whitespace == {" ", "\n", "\t"}

RECURSIVE LStrip(_)
LStrip(s) ==
    IF s # <<>> /\ Head(s) \in Whitespace THEN LStrip(Tail(s)) ELSE s

RECURSIVE RStrip(_)
RStrip(s) ==
    IF s # <<>> /\ s[Len(s)] \in Whitespace
    THEN RStrip(SubSeq(s, 1, Len(s) - 1))
    ELSE s

Strip(s) == RStrip(LStrip(s))

\* str.startswith(prefix)
StartsWith(s, prefix) ==
    /\ Len(s) >= Len(prefix)
    /\ SubSeq(s, 1, Len(prefix)) = prefix

\* str.count(c) for a one-character c
Count(s, c) == Cardinality({i \in 1..Len(s) : s[i] = c})

\* str.split(sep) for a one-character sep: always at least one field.
RECURSIVE Split(_, _)
Split(s, sep) ==
    IF \A i \in 1..Len(s) : s[i] # sep
    THEN <<s>>
    ELSE LET i == CHOOSE k \in 1..Len(s) :
                      /\ s[k] = sep
                      /\ \A j \in 1..(k - 1) : s[j] # sep
         IN  <<SubSeq(s, 1, i - 1)>> \o Split(SubSeq(s, i + 1, Len(s)), sep)

\* sep.join(parts)
RECURSIVE Join(_, _)
Join(parts, sep) ==
    IF parts = <<>> THEN <<>>
    ELSE IF Len(parts) = 1 THEN parts[1]
    ELSE parts[1] \o sep \o Join(Tail(parts), sep)

(***************************************************************************)
(* The chunker: get_page_chunks and join_single_sentence_chunks.           *)
(***************************************************************************)
HeadingH2 == <<"=", "=">>
HeadingH3 == <<"=", "=", "=">>

\* The loop of join_single_sentence_chunks from position i on, with the
\* loop's two locals; the flush after the loop is its base case.
RECURSIVE JoinLoop(_, _, _, _)
JoinLoop(chunks, i, new_chunks, paragraph) ==
    IF i > Len(chunks)
    THEN IF paragraph # <<>>
         THEN Append(new_chunks, Strip(paragraph))
         ELSE new_chunks
    ELSE LET chunk == chunks[i] IN
         IF Count(chunk, ".") <= 1
         THEN JoinLoop(chunks, i + 1, new_chunks, paragraph \o <<" ">> \o chunk)
         ELSE JoinLoop(chunks, i + 1,
                       IF paragraph # <<>>
                       THEN Append(new_chunks, Strip(paragraph))
                       ELSE new_chunks,
                       chunk)

join_single_sentence_chunks(chunks) == JoinLoop(chunks, 1, <<>>, <<>>)

\* The line filter of get_page_chunks ("Some cleaning").
KeepLine(chunk) ==
    /\ ~StartsWith(chunk, HeadingH2)
    /\ ~StartsWith(chunk, HeadingH3)
    /\ Strip(chunk) # <<>>

CleanLines(page_content) == SelectSeq(Split(page_content, "\n"), KeepLine)

get_page_chunks(page_content) ==
    join_single_sentence_chunks(CleanLines(page_content))

(***************************************************************************)
(* The chunker as a pure function: every document text over DocAlphabet    *)
(* of at most MaxDocLen characters is chunked.                             *)
(***************************************************************************)
DocAlphabet == {"a", ".", "=", " ", "\n"}

NoValue == [kind |-> "none"]

InitChunker ==
    /\ arg \in SeqUpTo(DocAlphabet, MaxDocLen)
    /\ ret = NoValue
    /\ collections = [n \in {} |-> <<>>]
    /\ verifier = NoValue
    /\ lastOp = NoValue

Chunk ==
    /\ ret = NoValue
    /\ ret' = [kind |-> "chunks", value |-> get_page_chunks(arg)]
    /\ UNCHANGED <<arg, collections, verifier, lastOp>>

NextChunker == Chunk

SpecChunker == InitChunker /\ [][NextChunker]_vars


(***************************************************************************)
(* Results of a call: a returned value or a raised exception.              *)
(***************************************************************************)
Return(v) == [kind |-> "return", value |-> v]
Raise(e) == [kind |-> "raise", error |-> e]

\* The exceptions the code raises, by Python type and message, and the
\* exceptions of its collaborators.
CorpusNotFound(topic) ==
    [type |-> "RuntimeError",
     msg |-> "Could not find a valid Wikipedia page for {topic}",
     topic |-> topic]
EmptyCorpus ==
    [type |-> "ValueError",
     msg |-> "Could not find any matching paragraphs in the Wikipedia page."]
JudgeUnavailable(cause) ==
    [type |-> "RuntimeError",
     msg |-> "Error getting response from the LLM: {e}",
     cause |-> cause]
MalformedJudgeResponse ==
    [type |-> "ValueError",
     msg |-> "Received an invalid evaluation response from the LLM."]
InvalidConfiguration(method) ==
    [type |-> "ValueError",
     msg |-> "Validation method {method} is not supported.",
     method |-> method]
PageError == [type |-> "wikipedia.exceptions.PageError"]
DisambiguationError == [type |-> "wikipedia.exceptions.DisambiguationError"]
IndexEngineError == [type |-> "chromadb.errors.ChromaError"]
BackendError == [type |-> "litellm.exceptions.APIError"]
AttributeError == [type |-> "AttributeError"]

(***************************************************************************)
(* The passage index: a chromadb collection is modelled as the sequence    *)
(* of its entries [id, document] in insertion order; `collections` maps    *)
(* the name of every collection of the process's client to its entries.    *)
(***************************************************************************)
N_RESULTS == 3

\* name=f"wiki_{str(hash(self.topic_name))}": within one process hash() is
\* a fixed function of the string; the name is modelled by the pair.
collection_name(topic_name) == <<"wiki_", topic_name>>

\* A collection that is created anew on every construction, dropping what
\* the namespace held.
create_collection_Reset(colls, name) ==
    [n \in DOMAIN colls \cup {name} |-> IF n = name THEN <<>> ELSE colls[n]]

\* chroma_client.get_or_create_collection(name=...)
get_or_create_collection(colls, name) ==
    IF name \in DOMAIN colls
    THEN colls
    ELSE [n \in DOMAIN colls \cup {name} |->
             IF n = name THEN <<>> ELSE colls[n]]

EntryIds(entries) == {entries[i].id : i \in 1..Len(entries)}

\* collection.add(documents=..., ids=...): an id the collection already
\* holds is not inserted again and its document is left as it was; an empty
\* id list is refused or accepted, depending on the engine (onEmpty).
RECURSIVE AddLoop(_, _, _, _)
AddLoop(entries, documents, ids, i) ==
    IF i > Len(ids) THEN entries
    ELSE AddLoop(IF ids[i] \in EntryIds(entries)
                 THEN entries
                 ELSE Append(entries, [id |-> ids[i], document |-> documents[i]]),
                 documents, ids, i + 1)

collection_add(entries, documents, ids, onEmpty) ==
    IF ids = <<>> /\ onEmpty = "reject"
    THEN [out |-> Raise(IndexEngineError), entries |-> entries]
    ELSE [out |-> Return("None"), entries |-> AddLoop(entries, documents, ids, 1)]

AddBehaviours == {"reject", "accept"}

\* add_to_collection: chunk the page and add the chunks under the ids
\* "0" .. "n-1".
add_to_collection(entries, page_content, onEmpty) ==
    LET chunks == get_page_chunks(page_content)
    IN  collection_add(entries, chunks,
                       [i \in 1..Len(chunks) |-> ToString(i - 1)], onEmpty)

\* The outcomes of collection.query(query_texts=[response], n_results=3):
\* the engine fails, or ranks the min(3, n) entries nearest to the query
\* (the similarity is the engine's: any ranking may come back).
Min(a, b) == IF a <= b THEN a ELSE b

Rankings(n) ==
    {r \in [1..Min(N_RESULTS, n) -> 1..n] :
        \A i, j \in DOMAIN r : i # j => r[i] # r[j]}

QueryOutcomes(entries) ==
    {[kind |-> "error"]} \cup
    {[kind |-> "results", rank |-> r] : r \in Rankings(Len(entries))}

\* A query that also stores the query text in the collection.
collection_query_Upsert(entries, query_text, engine) ==
    [documents |-> << [i \in 1..Len(engine.rank) |->
                          entries[engine.rank[i]].document] >>,
     entries |-> Append(entries, [id |-> "query", document |-> query_text])]

\* results["documents"] holds one list per query text; a query reads the
\* collection and leaves its entries as they were.
collection_query(entries, query_text, engine) ==
    [documents |-> << [i \in 1..Len(engine.rank) |->
                          entries[engine.rank[i]].document] >>,
     entries |-> entries]

get_closest_chunks(entries, response, engine) ==
    IF engine.kind = "error"
    THEN [out |-> Raise(IndexEngineError), entries |-> entries]
    ELSE LET results == collection_query(entries, response, engine)
         IN  [out |-> IF results.documents = <<>>
                      THEN Raise(EmptyCorpus)
                      ELSE Return(results.documents[1]),
              entries |-> results.entries]

(***************************************************************************)
(* The entailment judge.                                                   *)
(***************************************************************************)
YES == <<"y", "e", "s">>
NO == <<"n", "o">>

LowerChar(c) ==
    CASE c = "Y" -> "y"
      [] c = "E" -> "e"
      [] c = "S" -> "s"
      [] c = "N" -> "n"
      [] c = "O" -> "o"
      [] OTHER -> c

\* str.lower()
Lower(s) == [i \in 1..Len(s) |-> LowerChar(s[i])]

\* The fixed template with its two substitutions.
get_prompt(response, chunks) ==
    [claim |-> response, contexts |-> Join(chunks, <<"\n">>)]

\* The reply lowercased but not trimmed.
InterpretReply_NoStrip(backend) ==
    IF backend.kind = "error"
    THEN Raise(JudgeUnavailable(BackendError))
    ELSE IF backend.kind = "nocontent"
    THEN Raise(JudgeUnavailable(AttributeError))
    ELSE LET val_response == Lower(backend.content)
         IN  IF val_response \notin {YES, NO}
             THEN Raise(MalformedJudgeResponse)
             ELSE Return(val_response)

\* Lines 242-253: the outcome of completion(...) is a failure of the call,
\* a message with no content (content is None) or a message with text.
\* Everything inside the try that raises becomes the RuntimeError.
InterpretReply(backend) ==
    IF backend.kind = "error"
    THEN Raise(JudgeUnavailable(BackendError))
    ELSE IF backend.kind = "nocontent"
    THEN Raise(JudgeUnavailable(AttributeError))
    ELSE LET val_response == Lower(Strip(backend.content))
         IN  IF val_response \notin {YES, NO}
             THEN Raise(MalformedJudgeResponse)
             ELSE Return(val_response)

\* get_evaluation with the outcomes of its two external calls (oracle.engine
\* for the index query, oracle.backend for the completion); `calls` lists
\* the external calls made, in order.
get_evaluation(self, entries, response, oracle) ==
    LET closest == get_closest_chunks(entries, response, oracle.engine)
        queryCall == [op |-> "query", text |-> response]
    IN  IF closest.out.kind = "raise"
        THEN [out |-> closest.out, calls |-> <<queryCall>>,
              entries |-> closest.entries]
        ELSE [out |-> InterpretReply(oracle.backend),
              calls |-> <<queryCall,
                          [op |-> "completion",
                           model |-> self.llm_callable,
                           prompt |-> get_prompt(response, closest.out.value),
                           ncontexts |-> Len(closest.out.value)]>>,
              entries |-> closest.entries]

(***************************************************************************)
(* The verifier: validate and its two modes.  `sentences` is what          *)
(* nltk.sent_tokenize returns for the value; oracles[i] holds the outcomes *)
(* of the external calls made for the i-th validation unit.                *)
(***************************************************************************)
PassResult == [outcome |-> "PassResult"]
FailResult(error_message, fix_value) ==
    [outcome |-> "FailResult",
     error_message |-> error_message,
     fix_value |-> fix_value]

SentenceFailHeader ==
    "None of the following sentences in the response are supported by the provided context:"
FullFailMessage ==
    "The response is not supported by the provided context."

\* The fix value joined by spaces instead of newlines.
SentenceResult_SpaceJoin(supported_sentences, unsupported_sentences) ==
    IF unsupported_sentences # <<>>
    THEN LET bullets == <<"-", " ">> \o
                        Join(unsupported_sentences, <<"\n", "-", " ">>)
         IN  FailResult(<<SentenceFailHeader, "\n">> \o bullets,
                        Join(supported_sentences, <<" ">>))
    ELSE PassResult

\* Lines 272-283: the result once every sentence has been judged.
SentenceResult(supported_sentences, unsupported_sentences) ==
    IF unsupported_sentences # <<>>
    THEN LET bullets == <<"-", " ">> \o
                        Join(unsupported_sentences, <<"\n", "-", " ">>)
         IN  FailResult(<<SentenceFailHeader, "\n">> \o bullets,
                        Join(supported_sentences, <<"\n">>))
    ELSE PassResult

\* A loop that counts a sentence whose evaluation raised as unsupported
\* and goes on to the next sentence.
RECURSIVE SentenceLoop_Swallow(_, _, _, _, _, _, _, _)
SentenceLoop_Swallow(self, entries, sentences, oracles, i, supported_sentences, unsupported_sentences, calls) ==
    IF i > Len(sentences)
    THEN [out |-> Return(SentenceResult(supported_sentences,
                                        unsupported_sentences)),
          calls |-> calls, entries |-> entries]
    ELSE LET ev == get_evaluation(self, entries, sentences[i], oracles[i])
         IN  IF ev.out.kind = "return" /\ ev.out.value = YES
             THEN SentenceLoop_Swallow(self, ev.entries, sentences, oracles,
                                       i + 1,
                                       Append(supported_sentences, sentences[i]),
                                       unsupported_sentences, calls \o ev.calls)
             ELSE SentenceLoop_Swallow(self, ev.entries, sentences, oracles,
                                       i + 1, supported_sentences,
                                       Append(unsupported_sentences, sentences[i]),
                                       calls \o ev.calls)

\* The loop of validate_each_sentence from sentence i on; an exception of
\* get_evaluation leaves the loop and the function at once.
RECURSIVE SentenceLoop(_, _, _, _, _, _, _, _)
SentenceLoop(self, entries, sentences, oracles, i, supported_sentences, unsupported_sentences, calls) ==
    IF i > Len(sentences)
    THEN [out |-> Return(SentenceResult(supported_sentences,
                                        unsupported_sentences)),
          calls |-> calls, entries |-> entries]
    ELSE LET ev == get_evaluation(self, entries, sentences[i], oracles[i])
         IN  IF ev.out.kind = "raise"
             THEN [out |-> ev.out, calls |-> calls \o ev.calls,
                   entries |-> ev.entries]
             ELSE IF ev.out.value = YES
             THEN SentenceLoop(self, ev.entries, sentences, oracles, i + 1,
                               Append(supported_sentences, sentences[i]),
                               unsupported_sentences, calls \o ev.calls)
             ELSE SentenceLoop(self, ev.entries, sentences, oracles, i + 1,
                               supported_sentences,
                               Append(unsupported_sentences, sentences[i]),
                               calls \o ev.calls)

validate_each_sentence(self, entries, sentences, oracles) ==
    SentenceLoop(self, entries, sentences, oracles, 1, <<>>, <<>>, <<>>)

validate_full_text(self, entries, value, oracles) ==
    LET ev == get_evaluation(self, entries, value, oracles[1])
    IN  IF ev.out.kind = "raise"
        THEN ev
        ELSE [out |-> Return(IF ev.out.value = NO
                             THEN FailResult(FullFailMessage, <<>>)
                             ELSE PassResult),
              calls |-> ev.calls, entries |-> ev.entries]

validate(self, entries, value, sentences, oracles) ==
    IF self.validation_method = "sentence"
    THEN validate_each_sentence(self, entries, sentences, oracles)
    ELSE IF self.validation_method = "full"
    THEN validate_full_text(self, entries, value, oracles)
    ELSE [out |-> Raise(InvalidConfiguration(self.validation_method)),
          calls |-> <<>>, entries |-> entries]

(***************************************************************************)
(* The corpus fetcher.  search_results is what wikipedia.search returns    *)
(* (at most SEARCH_RESULTS titles); wiki[title] is the outcome of          *)
(* wikipedia.page(title, auto_suggest=False): a page, a disambiguation     *)
(* error with its options, or a page error.                                *)
(***************************************************************************)
SEARCH_RESULTS == 3

\* Lines 79-86: the handler of the disambiguation error fetches the first
\* option; what that fetch raises is raised out of get_wiki_page.
ResolveDisambiguation(wiki, options) ==
    LET first == wiki[options[1]]
    IN  IF first.kind = "page" THEN Return(first.page)
        ELSE IF first.kind = "ambiguous" THEN Raise(DisambiguationError)
        ELSE Raise(PageError)

RECURSIVE WikiLoop(_, _, _, _)
WikiLoop(topic_name, search_results, wiki, i) ==
    IF i > Len(search_results)
    THEN Raise(CorpusNotFound(topic_name))
    ELSE LET fetched == wiki[search_results[i]]
         IN  IF fetched.kind = "page" THEN Return(fetched.page)
             ELSE IF fetched.kind = "ambiguous"
             THEN ResolveDisambiguation(wiki, fetched.options)
             ELSE WikiLoop(topic_name, search_results, wiki, i + 1)

get_wiki_page(topic_name, search_results, wiki) ==
    WikiLoop(topic_name, search_results, wiki, 1)

(***************************************************************************)
(* Construction: __init__.  The result holds the collections as the        *)
(* constructor leaves them, the verifier when one is constructed, and the  *)
(* constructor's steps in order.                                           *)
(***************************************************************************)
WikiProvenance_init(colls, topic_name, validation_method, llm_callable, search_results, wiki, onEmpty) ==
    LET name == collection_name(topic_name)
        created == get_or_create_collection(colls, name)
        fetched == get_wiki_page(topic_name, search_results, wiki)
    IN  IF fetched.kind = "raise"
        THEN [out |-> fetched, collections |-> created,
              failed |-> "get_wiki_page"]
        ELSE LET added == add_to_collection(created[name],
                                            fetched.value.content, onEmpty)
             IN  IF added.out.kind = "raise"
                 THEN [out |-> added.out, collections |-> created,
                       failed |-> "add_to_collection"]
                 ELSE [out |-> Return([topic_name |-> topic_name,
                                       validation_method |-> validation_method,
                                       llm_callable |-> llm_callable,
                                       page |-> fetched.value,
                                       collection |-> name]),
                       collections |-> [created EXCEPT ![name] = added.entries],
                       failed |-> "nothing"]

(***************************************************************************)
(* The inputs of the model.                                                *)
(***************************************************************************)
MaxSentences == 3
MaxReplyLen == 3

Topics == {"Apple company", "Mercury"}
Methods == {"sentence", "full", "paragraph"}
Models == {"gpt-3.5-turbo"}
\* The lifecycle fetches over one title; the fetcher itself is checked over
\* FetchTitles below.
Titles == {"Apple Inc."}

\* Three page texts: two chunks, one chunk, and a heading only (no chunk).
DocA == <<"a", ".", ".", "\n", "b", ".", ".">>
DocB == <<"c", ".">>
DocE == <<"=", "=", "h">>
Docs == {DocA, DocB, DocE}

\* The outcomes of wikipedia.page(title=t, auto_suggest=False).
TitleOutcomes(titles, docs, t) ==
    {[kind |-> "page", page |-> [title |-> t, content |-> d]] : d \in docs}
    \cup {[kind |-> "ambiguous", options |-> <<o>>] : o \in titles}
    \cup {[kind |-> "missing"]}

WikiStatesOver(titles, docs) ==
    {w \in [titles -> UNION {TitleOutcomes(titles, docs, t) : t \in titles}] :
        \A t \in titles : w[t] \in TitleOutcomes(titles, docs, t)}

\* wikipedia.search(topic, results=3): at most 3 distinct titles, ranked.
SearchResultsOver(titles) ==
    {r \in SeqUpTo(titles, SEARCH_RESULTS) :
        \A i, j \in DOMAIN r : i # j => r[i] # r[j]}

WikiStates == WikiStatesOver(Titles, Docs)
SearchResults == SearchResultsOver(Titles)

Sentences == {<<"A", ".">>, <<"B", ".">>}

SampleReplies == {<<" ", "Y", "e", "s">>, <<"n", "o">>, <<"m", "a", "y", "b", "e">>}

BackendOutcomes(replies) ==
    {[kind |-> "error"], [kind |-> "nocontent"]}
    \cup {[kind |-> "text", content |-> c] : c \in replies}

\* The outcomes of the external calls made for one validation unit.
UnitOracles(entries, replies) ==
    {[engine |-> e, backend |-> b] :
        e \in QueryOutcomes(entries) \ {[kind |-> "error"]},
        b \in BackendOutcomes(replies)}
    \cup {[engine |-> [kind |-> "error"], backend |-> [kind |-> "unused"]]}

\* The number of validation units of a validate call.
NUnits(method, sentences) ==
    IF method = "sentence" THEN Len(sentences)
    ELSE IF method = "full" THEN 1 ELSE 0

\* The raw value whose tokenization is `sentences`.
ValueOf(sentences) == Join(sentences, <<" ">>)

NoCollections == [n \in {} |-> <<>>]

(***************************************************************************)
(* The lifecycle: verifiers are constructed and the current one validates. *)
(* lastOp records the last operation and how it ended.                     *)
(***************************************************************************)
\* The values validated in the lifecycle: no, one and two sentences.
LifecycleValues == {<<>>, <<<<"A", ".">>>>, <<<<"A", ".">>, <<"B", ".">>>>}

Init ==
    /\ collections = NoCollections
    /\ verifier = NoValue
    /\ lastOp = NoValue
    /\ arg = NoValue
    /\ ret = NoValue

Construct ==
    \E topic \in Topics, method \in Methods, llm \in Models,
       search \in SearchResults, wiki \in WikiStates, onEmpty \in AddBehaviours :
        LET r == WikiProvenance_init(collections, topic, method, llm,
                                     search, wiki, onEmpty)
        IN  /\ collections' = r.collections
            /\ verifier' = IF r.out.kind = "return" THEN r.out.value ELSE verifier
            /\ lastOp' = [kind |-> "op", op |-> "construct", topic_name |-> topic,
                          failed |-> r.failed,
                          error |-> IF r.out.kind = "raise"
                                    THEN r.out.error ELSE NoValue]
            /\ UNCHANGED <<arg, ret>>

Validate ==
    /\ verifier # NoValue
    /\ \E sentences \in LifecycleValues :
       LET entries == collections[verifier.collection]
       IN  \E oracles \in [1..NUnits(verifier.validation_method, sentences) ->
                              UnitOracles(entries, SampleReplies)] :
           LET r == validate(verifier, entries, ValueOf(sentences),
                             sentences, oracles)
           IN  /\ collections' = [collections EXCEPT
                                     ![verifier.collection] = r.entries]
               /\ verifier' = verifier
               /\ lastOp' = [kind |-> "op", op |-> "validate",
                             outcome |-> IF r.out.kind = "raise"
                                         THEN "raise"
                                         ELSE r.out.value.outcome]
               /\ UNCHANGED <<arg, ret>>

Next == Construct \/ Validate

Spec == Init /\ [][Next]_vars

(***************************************************************************)
(* One validate call on a freshly constructed verifier, with its result    *)
(* and its external calls recorded in ret.                                 *)
(***************************************************************************)
InitValidate ==
    /\ \E topic \in Topics, method \in Methods, llm \in Models,
          search \in SearchResults, wiki \in WikiStates,
          onEmpty \in AddBehaviours :
          LET r == WikiProvenance_init(NoCollections, topic, method, llm,
                                       search, wiki, onEmpty)
          IN  /\ r.out.kind = "return"
              /\ collections = r.collections
              /\ verifier = r.out.value
    /\ lastOp = NoValue
    /\ arg = NoValue
    /\ ret = NoValue

ValidateCall ==
    /\ ret = NoValue
    /\ \E sentences \in SeqUpTo(Sentences, MaxSentences) :
       LET entries == collections[verifier.collection]
       IN  \E oracles \in [1..NUnits(verifier.validation_method, sentences) ->
                              UnitOracles(entries, SampleReplies)] :
           LET r == validate(verifier, entries, ValueOf(sentences),
                             sentences, oracles)
           IN  /\ collections' = [collections EXCEPT
                                     ![verifier.collection] = r.entries]
               /\ arg' = [sentences |-> sentences, oracles |-> oracles]
               /\ ret' = [out |-> r.out, calls |-> r.calls]
               /\ UNCHANGED <<verifier, lastOp>>

NextValidate == ValidateCall

SpecValidate == InitValidate /\ [][NextValidate]_vars

(***************************************************************************)
(* get_evaluation as a function of the judge's reply: every reply over     *)
(* ReplyAlphabet of at most MaxReplyLen characters, against the verifier   *)
(* constructed for "Apple company" over DocA.                              *)
(***************************************************************************)
ReplyAlphabet == {"y", "e", "s", "n", "o", "Y", "E", "S", "N", "O", " ", "\n"}

AllReplies == SeqUpTo(ReplyAlphabet, MaxReplyLen)

JudgedSentence == <<"A", ".">>

InitJudge ==
    /\ LET r == WikiProvenance_init(
                    NoCollections, "Apple company", "sentence", "gpt-3.5-turbo",
                    <<"Apple Inc.">>,
                    [t \in Titles |->
                        [kind |-> "page",
                         page |-> [title |-> t, content |-> DocA]]],
                    "reject")
       IN  /\ collections = r.collections
           /\ verifier = r.out.value
    /\ arg \in UnitOracles(collections[verifier.collection], AllReplies)
    /\ lastOp = NoValue
    /\ ret = NoValue

Evaluate ==
    /\ ret = NoValue
    /\ LET r == get_evaluation(verifier, collections[verifier.collection],
                               JudgedSentence, arg)
       IN  ret' = [out |-> r.out, calls |-> r.calls]
    /\ UNCHANGED <<arg, collections, verifier, lastOp>>

NextJudge == Evaluate

SpecJudge == InitJudge /\ [][NextJudge]_vars

(***************************************************************************)
(* get_wiki_page as a function of the search results and of the outcome    *)
(* of every page fetch, over three titles.                                 *)
(***************************************************************************)
FetchTitles == {"Mercury", "Mercury (planet)", "Mercury (element)"}

InitFetch ==
    /\ arg \in [topic_name : {"Mercury"},
                search_results : SearchResultsOver(FetchTitles),
                wiki : WikiStatesOver(FetchTitles, {DocB})]
    /\ ret = NoValue
    /\ collections = NoCollections
    /\ verifier = NoValue
    /\ lastOp = NoValue

Fetch ==
    /\ ret = NoValue
    /\ ret' = get_wiki_page(arg.topic_name, arg.search_results, arg.wiki)
    /\ UNCHANGED <<arg, collections, verifier, lastOp>>

NextFetch == Fetch

SpecFetch == InitFetch /\ [][NextFetch]_vars

(***************************************************************************)
(* The claims.                                                             *)
(***************************************************************************)

\* C2: get_wiki_page returns one document or fails with CorpusNotFound
\* naming the topic, and with no other error, whatever the candidates and
\* the outcome of each fetch (the fetch of a disambiguation option too).
C2_OnlyCorpusNotFound ==
    ret # NoValue =>
        \/ /\ ret.kind = "return"
           /\ ret.value.content \in Docs
        \/ /\ ret.kind = "raise"
           /\ ret.error = CorpusNotFound(arg.topic_name)

\* "After trimming whitespace and lowercasing, the reply equals token",
\* stated on the reply itself: whitespace, then the token's letters in
\* either case, then whitespace.
CaseVariants(c) ==
    CASE c = "y" -> {"y", "Y"}
      [] c = "e" -> {"e", "E"}
      [] c = "s" -> {"s", "S"}
      [] c = "n" -> {"n", "N"}
      [] c = "o" -> {"o", "O"}
      [] OTHER -> {c}

IsToken(reply, token) ==
    \E a \in 0..Len(reply) :
        /\ a + Len(token) <= Len(reply)
        /\ \A k \in 1..a : reply[k] \in Whitespace
        /\ \A k \in 1..Len(token) : reply[a + k] \in CaseVariants(token[k])
        /\ \A k \in (a + Len(token) + 1)..Len(reply) : reply[k] \in Whitespace

\* The verdict of a unit's oracle: "yes", "no", or "failed" when the index
\* query or the judge call fails or the reply is neither token.
VerdictOf(oracle) ==
    IF oracle.engine.kind = "error" \/ oracle.backend.kind # "text"
    THEN "failed"
    ELSE IF IsToken(oracle.backend.content, YES) THEN "yes"
    ELSE IF IsToken(oracle.backend.content, NO) THEN "no"
    ELSE "failed"

\* C3: get_evaluation returns a verdict only when the trimmed, lowercased
\* reply is exactly "yes" or "no", and returns that token; any other reply
\* fails with MalformedJudgeResponse; a failed backend call fails with
\* JudgeUnavailable wrapping the cause.
C3_StrictVerdict ==
    ret # NoValue =>
        /\ ret.out.kind = "return" =>
              /\ VerdictOf(arg) \in {"yes", "no"}
              /\ ret.out.value = (IF VerdictOf(arg) = "yes" THEN YES ELSE NO)
        /\ (arg.engine.kind # "error" /\ arg.backend.kind = "text") =>
              IF VerdictOf(arg) = "failed"
              THEN ret.out = Raise(MalformedJudgeResponse)
              ELSE ret.out.kind = "return"
        /\ (arg.engine.kind # "error" /\ arg.backend.kind = "error") =>
              /\ ret.out.kind = "raise"
              /\ ret.out.error.type = "RuntimeError"
              /\ ret.out.error.cause = BackendError

C3_Witness ==
    /\ ret # NoValue
    /\ arg.backend.kind = "text"
    /\ arg.backend.content = <<" ", "N", "o">>
    /\ ret.out = Return(NO)

\* The units of the validate call recorded in arg, and their verdicts.
UnitVerdict(i) == VerdictOf(arg.oracles[i])

RECURSIVE SentencesJudged(_, _)
SentencesJudged(verdict, i) ==
    IF i > Len(arg.sentences) THEN <<>>
    ELSE (IF UnitVerdict(i) = verdict THEN <<arg.sentences[i]>> ELSE <<>>)
         \o SentencesJudged(verdict, i + 1)

RECURSIVE Bullets(_)
Bullets(list) ==
    IF list = <<>> THEN <<>>
    ELSE <<"-", " ">> \o Head(list)
         \o (IF Tail(list) = <<>> THEN <<>> ELSE <<"\n">> \o Bullets(Tail(list)))

AllJudged ==
    \A i \in 1..Len(arg.sentences) : UnitVerdict(i) \in {"yes", "no"}

\* C1: in sentence mode, when every judge call answers "yes" or "no",
\* validate returns Pass exactly when no sentence is judged "no", and
\* otherwise Fail whose message lists the unsupported sentences as "- "
\* bullets in input order and whose fix value is the supported sentences
\* joined by newlines in input order; each sentence is in exactly one.
C1_SentenceModeOutcome ==
    (ret # NoValue /\ verifier.validation_method = "sentence" /\ AllJudged) =>
        LET unsupported == SentencesJudged("no", 1)
            supported == SentencesJudged("yes", 1)
        IN  /\ ret.out.kind = "return"
            /\ Len(unsupported) + Len(supported) = Len(arg.sentences)
            /\ (ret.out.value = PassResult) <=> (unsupported = <<>>)
            /\ unsupported # <<>> =>
                  /\ ret.out.value.outcome = "FailResult"
                  /\ ret.out.value.error_message =
                        <<SentenceFailHeader, "\n">> \o Bullets(unsupported)
                  /\ ret.out.value.fix_value = Join(supported, <<"\n">>)

C1_Witness ==
    /\ ret # NoValue
    /\ verifier.validation_method = "sentence"
    /\ AllJudged
    /\ Len(arg.sentences) = 3
    /\ UnitVerdict(1) = "yes"
    /\ UnitVerdict(2) = "no"
    /\ UnitVerdict(3) = "yes"
    /\ ret.out.value.outcome = "FailResult"
    /\ ret.out.value.fix_value = arg.sentences[1] \o <<"\n">> \o arg.sentences[3]

\* The first unit whose index query or judge call fails or whose reply is
\* malformed (0 when there is none).
FailingUnits == {i \in DOMAIN arg.oracles : UnitVerdict(i) = "failed"}
FirstFailure ==
    IF FailingUnits = {} THEN 0
    ELSE CHOOSE i \in FailingUnits : \A j \in FailingUnits : i <= j

UnitText(i) ==
    IF verifier.validation_method = "sentence"
    THEN arg.sentences[i]
    ELSE ValueOf(arg.sentences)

ErrorOf(oracle) ==
    IF oracle.engine.kind = "error" THEN IndexEngineError
    ELSE IF oracle.backend.kind = "error" THEN JudgeUnavailable(BackendError)
    ELSE IF oracle.backend.kind = "nocontent" THEN JudgeUnavailable(AttributeError)
    ELSE MalformedJudgeResponse

\* The external calls of units 1..n when unit n is the last one handled:
\* a query and a completion per unit, the completion missing when the
\* last unit's query failed.
QueriedTexts == SelectSeq(ret.calls, LAMBDA c : c.op = "query")
JudgedTexts == SelectSeq(ret.calls, LAMBDA c : c.op = "completion")

\* C4: in both modes, when the index query or the judge call fails or the
\* reply is malformed for a unit, validate raises that error at once:
\* no Pass or Fail, every call made once (no retry), nothing queried or
\* judged after the failing unit; and Fail comes only from a verdict "no".
C4_FailuresPropagate ==
    ret # NoValue =>
        LET first == FirstFailure
            queried == QueriedTexts
            judged == JudgedTexts
        IN  /\ first # 0 =>
                  LET queryFailed == arg.oracles[first].engine.kind = "error"
                  IN  /\ ret.out = Raise(ErrorOf(arg.oracles[first]))
                      /\ Len(queried) = first
                      /\ \A i \in 1..first : queried[i].text = UnitText(i)
                      /\ Len(judged) = IF queryFailed THEN first - 1 ELSE first
                      /\ ret.calls[Len(ret.calls)].op =
                            IF queryFailed THEN "query" ELSE "completion"
            /\ (ret.out.kind = "return" /\ ret.out.value.outcome = "FailResult") =>
                  /\ first = 0
                  /\ \E i \in DOMAIN arg.oracles : UnitVerdict(i) = "no"

C4_Witness ==
    /\ ret # NoValue
    /\ verifier.validation_method = "sentence"
    /\ Len(arg.sentences) = 2
    /\ UnitVerdict(1) = "no"
    /\ FirstFailure = 2
    /\ ret.out = Raise(MalformedJudgeResponse)

\* C6: when the verifier's namespace holds no documents, a validate call
\* that queries it fails with EmptyCorpus: the judge is never invoked with
\* an empty context list and no outcome is returned.
C6_EmptyCorpusRaises ==
    (/\ ret # NoValue
     /\ collections[verifier.collection] = <<>>
     /\ ret.calls # <<>>) =>
        /\ ret.out.kind = "raise"
        /\ \A i \in 1..Len(ret.calls) :
              ret.calls[i].op = "completion" => ret.calls[i].ncontexts > 0
        /\ arg.oracles[1].engine.kind # "error" => ret.out = Raise(EmptyCorpus)

\* The entries that hold exactly `chunks` under the ids "0" .. "n-1".
DenseEntries(chunks) ==
    [i \in 1..Len(chunks) |-> [id |-> ToString(i - 1), document |-> chunks[i]]]

ConstructedOk == lastOp.kind # "none" /\ lastOp.op = "construct" /\ lastOp.failed = "nothing"

\* C7: after a successful construction the topic's namespace holds exactly
\* the chunks of the fetched document, under the ids "0" .. "n-1" in
\* insertion order, whether the namespace was new or reused.
C7_NamespaceHoldsFetchedChunks ==
    ConstructedOk =>
        collections[verifier.collection] =
            DenseEntries(get_page_chunks(verifier.page.content))

ValidateStep == lastOp'.kind # "none" /\ lastOp'.op = "validate"

\* C8: no validate call changes the reference document, the contents of
\* the namespaces, the topic, the validation mode or the judge model.
C8_ValidateReadsOnly ==
    [][ValidateStep => (verifier' = verifier /\ collections' = collections)]_vars

C8_Witness ==
    /\ lastOp.kind # "none"
    /\ lastOp.op = "validate"
    /\ lastOp.outcome = "FailResult"
    /\ collections[verifier.collection] # <<>>

FetchFailedStep ==
    /\ lastOp'.kind # "none"
    /\ lastOp'.op = "construct"
    /\ lastOp'.failed = "get_wiki_page"

\* C9 as stated: a construction that aborts because the corpus fetch
\* failed has done no passage-index operation: no namespace is created or
\* populated and no verifier is constructed.
C9_NoIndexOperationBeforeFetch ==
    [][FetchFailedStep => (collections' = collections /\ verifier' = verifier)]_vars

\* C9 as amended: a construction that aborts because the corpus fetch
\* failed has inserted nothing and constructed no verifier; every existing
\* namespace holds what it held, and the only namespace it may have
\* created is the topic's, empty.
C9_NoInsertionBeforeFetch ==
    [][FetchFailedStep =>
          /\ verifier' = verifier
          /\ \A n \in DOMAIN collections :
                n \in DOMAIN collections' /\ collections'[n] = collections[n]
          /\ \A n \in DOMAIN collections' \ DOMAIN collections :
                /\ n = collection_name(lastOp'.topic_name)
                /\ collections'[n] = <<>>]_vars

C9_Witness ==
    /\ lastOp.kind # "none"
    /\ lastOp.op = "construct"
    /\ lastOp.failed = "get_wiki_page"
    /\ collection_name(lastOp.topic_name) \in DOMAIN collections
    /\ collections[collection_name(lastOp.topic_name)] = <<>>
    /\ verifier = NoValue

\* C5: no chunk returned by get_page_chunks is empty after trimming, and no
\* returned chunk begins with the heading marker "==".
C5_NoEmptyNoHeadingChunk ==
    ret.kind = "chunks" =>
        \A i \in 1..Len(ret.value) :
            /\ Strip(ret.value[i]) # <<>>
            /\ ~StartsWith(ret.value[i], HeadingH2)

\* The output the chunker's description gives: one chunk per maximal run of
\* single-sentence lines (joined by one space), one chunk per multi-period
\* line, each stripped, in document order.
FlushRun(out, run) ==
    IF run = <<>> THEN out ELSE Append(out, Strip(Join(run, <<" ">>)))

RECURSIVE RunsLoop(_, _, _, _)
RunsLoop(lines, i, out, run) ==
    IF i > Len(lines)
    THEN FlushRun(out, run)
    ELSE IF Count(lines[i], ".") <= 1
         THEN RunsLoop(lines, i + 1, out, Append(run, lines[i]))
         ELSE RunsLoop(lines, i + 1,
                       Append(FlushRun(out, run), Strip(lines[i])), <<>>)

\* C10: the chunks are one chunk per maximal run of lines with at most one
\* period and one chunk, on its own, per line with two or more periods.
C10_RunsAndMultiPeriodLines ==
    ret.kind = "chunks" => ret.value = RunsLoop(CleanLines(arg), 1, <<>>, <<>>)

=============================================================================
